---- MODULE Spec2Model ----
(***************************************************************************)
(* Payment-order verification pipeline of the ticketing backend.           *)
(*                                                                         *)
(* One order is followed through its life: creation (routes/orders.js),    *)
(* the background verification started by setImmediate, the grace-period   *)
(* setTimeout callback, the admin verification request (routes/admin.js),  *)
(* the unguarded PUT endpoints of routes/orders.js and the manual          *)
(* verify/reject endpoints (routes/mcbJuiceManual.js).                     *)
(*                                                                         *)
(* Every handler is cut at its awaits that touch the store: a findById is  *)
(* one step, a save() is one step, ticket generation and e-mail delivery   *)
(* are one step each.  A Mongoose save() of a loaded document writes the   *)
(* paths modified since load and nothing else, and checks no precondition  *)
(* on the stored document; it is modelled that way (Save).  Writes to the  *)
(* store always succeed; ticket generation and delivery may fail.          *)
(*                                                                         *)
(* Beside the order stand the event's ticket type record, with the         *)
(* requests that buy from it or create orders against it (SpecEvent), a    *)
(* call of verifyReceipt on a parsed receipt (SpecScorer), a call of       *)
(* parseReceiptData on the lines of a text (SpecParser) and the votes on a *)
(* song of the live playlist (SpecPlaylist).  Each specification moves its *)
(* own variables and leaves the others as they start.  SpecUnattended is   *)
(* the order on which no verification request is made, with the fairness   *)
(* of a process that stays up; SpecRouting feeds the pipeline every        *)
(* confidence and validity flag.                                           *)
(***************************************************************************)
EXTENDS Integers, Sequences, FiniteSets, TLC

\* ---------------------------------------------------------------- bounds
MaxTicks == 1
MaxRequests == 1
TimerRuns == 2
Stock == 2
MaxShoppers == 2
MaxLines == 2
MaxVoters == 3
MaxVotes == 4

\* ------------------------------------------------------ program constants
GraceMinutes == 5
AmountWeight == 40
ReferenceWeight == 40
RecipientWeight == 10
TransactionWeight == 10
ValidThreshold == 40
ApproveThreshold == 40
GraceThreshold == 20
QuickReviewThreshold == 40

NoDate == 0 - 1

PaymentStatuses ==
  {"pending", "pending_verification", "pending_auto_approval", "pending_quick_review",
   "pending_whatsapp_verification", "completed", "failed", "refunded"}

PendingFamily ==
  {"pending_verification", "pending_whatsapp_verification",
   "pending_auto_approval", "pending_quick_review"}

\* One line of an order's tickets array.
TicketLine(ticketTypeId, quantity) == [ticketTypeId |-> ticketTypeId, quantity |-> quantity]

\* The persisted paths of an Order document that the verification code
\* touches, and its ticket line.
NewOrder(method, status, notes) ==
  [ tickets           |-> TicketLine("standard", 1),
    paymentMethod     |-> method,
    paymentStatus     |-> status,
    verificationNotes |-> notes,
    verifiedBy        |-> "undefined",
    verifiedAt        |-> NoDate,
    autoApprovalAt    |-> NoDate,
    reviewPriority    |-> "standard" ]

NoOrder == NewOrder("none", "none", << >>)

\* An in-memory Mongoose document: the loaded values and the modified paths.
Loaded(stored) == [doc |-> stored, mod |-> {}]

\* doc.path = value : the path becomes modified when the value differs.
SetPath(d, path, value) ==
  [ doc |-> [d.doc EXCEPT ![path] = value],
    mod |-> IF d.doc[path] = value THEN d.mod ELSE d.mod \cup {path} ]

\* doc.path = new Date(...) : a fresh timestamp never equals the loaded one.
SetDate(d, path, value) ==
  [ doc |-> [d.doc EXCEPT ![path] = value],
    mod |-> d.mod \cup {path} ]

\* doc.save() : $set of the modified paths onto whatever is stored now.
Save(stored, d) ==
  [path \in DOMAIN stored |-> IF path \in d.mod THEN d.doc[path] ELSE stored[path]]

Saved(d) == [doc |-> d.doc, mod |-> {}]

\* ------------------------------------------------------------- the scorer
\* verifyReceipt's confidence from its four checks.
Confidence(amountMatch, referenceMatch, recipientMatch, hasTransactionId) ==
    (IF amountMatch THEN AmountWeight ELSE 0)
  + (IF referenceMatch THEN ReferenceWeight ELSE 0)
  + (IF recipientMatch THEN RecipientWeight ELSE 0)
  + (IF hasTransactionId THEN TransactionWeight ELSE 0)

IsValid(score) == score >= ValidThreshold

\* The outcomes of the four checks that the receipts of the model produce:
\* <<amountMatch, referenceMatch, recipientMatch, hasTransactionId>>.
\* They score 0, 10, 20, 40 and 90.
ReceiptChecks ==
  { <<FALSE, FALSE, FALSE, FALSE>>, <<FALSE, FALSE, TRUE, FALSE>>,
    <<FALSE, FALSE, TRUE, TRUE>>,   <<TRUE, FALSE, FALSE, FALSE>>,
    <<TRUE, TRUE, TRUE, FALSE>> }

\* issues.join(', ')
RECURSIVE Join(_)
Join(issues) ==
  IF issues = << >> THEN ""
  ELSE IF Len(issues) = 1 THEN issues[1]
  ELSE issues[1] \o ", " \o Join(Tail(issues))

\* The issues pushed for the checks of a receipt in which the amount and
\* the reference, when they do not match, were not found at all.
IssuesOf(c) ==
     (IF c[1] THEN << >> ELSE <<"Amount not found in receipt">>)
  \o (IF c[2] THEN << >> ELSE <<"Reference code not found in receipt">>)
  \o (IF c[3] THEN << >> ELSE <<"Recipient mismatch">>)

ChecksOf(c) ==
  [amountMatch |-> c[1], referenceMatch |-> c[2],
   recipientMatch |-> c[3], hasTransactionId |-> c[4]]

\* What verifyReceipt's catch block returns.
FailedResult ==
  [isValid |-> FALSE, confidence |-> 0,
   checks |-> ChecksOf(<<FALSE, FALSE, FALSE, FALSE>>),
   issues |-> <<"Failed to process receipt image">>]

\* The results verifyReceipt can return: a scored receipt, or the
\* zero-confidence result of its own catch block.
VerificationResults ==
  { [isValid |-> IsValid(Confidence(c[1], c[2], c[3], c[4])),
     confidence |-> Confidence(c[1], c[2], c[3], c[4]),
     checks |-> ChecksOf(c),
     issues |-> IssuesOf(c)] : c \in ReceiptChecks }
  \cup { FailedResult }

\* `Automatic verification: ${confidence}% confidence. Issues: ${issues.join(', ')}`
AutomaticNote(verification) ==
  "Automatic verification: " \o ToString(verification.confidence)
  \o "% confidence. Issues: " \o Join(verification.issues)

\* ------------------------------------------------- verifyReceipt, in full
\* Amounts are in cents; a field that parseReceiptData left null is NoAmount,
\* the empty string or the empty sequence of characters.
NoAmount == 0 - 1

\* if (receiptData.amount): null and 0 are both falsy.
AmountFound(amount) == amount # NoAmount /\ amount # 0

\* The pairs <<found, expected>> of the model's amounts that are one cent
\* apart and for which Math.abs(found - expected) <= 0.01 holds on doubles:
\* 150.01 - 150 and 150 - 149.99 are 0.009999999999990905, while
\* 100.01 - 100 and 100 - 99.99 are 0.010000000000005116.
OneCentApartWithin == {<<14999, 15000>>, <<15001, 15000>>}

\* Math.abs(receiptData.amount - expectedAmount) <= 0.01
WithinTolerance(found, expected) ==
  LET difference == IF found >= expected THEN found - expected ELSE expected - found
  IN  IF difference = 0 THEN TRUE
      ELSE IF difference = 1 THEN <<found, expected>> \in OneCentApartWithin
      ELSE FALSE

\* str.replace(/\s/g, '') on a string given as its characters.
Strip(str) == SelectSeq(str, LAMBDA ch : ch # " ")

\* hay.includes(needle)
Includes(hay, needle) ==
  \E i \in 0..(Len(hay) - Len(needle)) : SubSeq(hay, i + 1, i + Len(needle)) = needle

\* What a throw inside the try block carries.
Thrown == [error |-> "Failed to extract text from receipt"]

\* The try block of verifyReceipt: extraction (which may throw), then the
\* four checks on the parsed record and the score.
TryVerifyReceipt(r) ==
  IF r.extraction = "thrown" THEN Thrown
  ELSE
    LET data == r.data
        amountMatch ==
          AmountFound(data.amount) /\ WithinTolerance(data.amount, r.expectedAmount)
        referenceMatch ==
          data.reference # "" /\ data.reference = r.expectedReference
        recipientMatch ==
          IF r.expectedRecipient # << >> /\ data.recipient # << >>
          THEN \/ Includes(Strip(data.recipient), Strip(r.expectedRecipient))
               \/ Includes(Strip(r.expectedRecipient), Strip(data.recipient))
          ELSE TRUE
        hasTransactionId == data.transactionId # ""
        score == Confidence(amountMatch, referenceMatch, recipientMatch, hasTransactionId)
    IN  [ isValid |-> IsValid(score),
          confidence |-> score,
          checks |-> ChecksOf(<<amountMatch, referenceMatch, recipientMatch, hasTransactionId>>),
          issues |->
               (IF amountMatch THEN << >>
                ELSE IF AmountFound(data.amount) THEN <<"Amount mismatch">>
                ELSE <<"Amount not found in receipt">>)
            \o (IF referenceMatch THEN << >>
                ELSE IF data.reference # "" THEN <<"Reference mismatch">>
                ELSE <<"Reference code not found in receipt">>)
            \o (IF recipientMatch THEN << >> ELSE <<"Recipient mismatch">>) ]

\* verifyReceipt without its catch block.
VerifyReceiptUncaught(r) == TryVerifyReceipt(r)

\* verifyReceipt: whatever is thrown in the try block becomes FailedResult.
VerifyReceipt(r) ==
  LET tried == TryVerifyReceipt(r)
  IN  IF tried = Thrown THEN FailedResult ELSE tried

\* The event's MCB Juice number as configured and as receipts print it.
JuiceNumber == <<"+", "2", "3", "0", " ", "5", "1", "2", "3", " ", "4", "5", "6", "7">>
JuiceNumberLocal == <<"5", "1", "2", "3", " ", "4", "5", "6", "7">>
JuiceNumberPacked == <<"2", "3", "0", "5", "1", "2", "3", "4", "5", "6", "7">>
OtherNumber == <<"+", "2", "3", "0", " ", "5", "9", "9", "9", " ", "0", "0", "0", "0">>

\* Records parseReceiptData may return, as far as verifyReceipt reads them.
ParsedRecords ==
  { [amount |-> a, reference |-> ref, transactionId |-> id, recipient |-> to] :
      a \in {NoAmount, 0, 9999, 10000, 10001, 10002, 14999, 15001},
      ref \in {"", "TCK1", "TCK2"},
      id \in {"", "TXN12345"},
      to \in {<< >>, JuiceNumber, JuiceNumberPacked, OtherNumber} }

\* Calls of verifyReceipt: whether extraction throws, what was parsed, and
\* the order's amount and reference with the event's number, if it has one.
ReceiptCalls ==
  { [extraction |-> e, data |-> data, expectedAmount |-> amount,
     expectedReference |-> "TCK1", expectedRecipient |-> to] :
      e \in {"text", "thrown"}, data \in ParsedRecords,
      amount \in {10000, 15000},
      to \in {<< >>, JuiceNumber, JuiceNumberLocal} }

\* ------------------------------------------------------- parseReceiptData
\* A line of the extracted text, trimmed and not empty: its leading word and
\* what follows it.
Line(word, rest) == [word |-> word, rest |-> rest]

\* The lines receipts are made of here: amounts with and without a currency
\* word, reference codes after a keyword, a keyword without a code, a code
\* without a keyword, a transaction id and a recipient number.
Lines ==
  { Line("Rs", "0.00"), Line("Rs", "150.00"), Line("MUR", "100"),
    Line("Total", "150.00"),
    Line("Ref", "TCK1"), Line("Note", "TCK2"), Line("Ref", "ABC1"),
    Line("Code", "TCK1"),
    Line("Transaction", "TXN12345"), Line("To", "+230 5123 4567") }

\* parseFloat of the digits the amount pattern captures, in cents.
ParseFloat ==
  [digits \in {"0.00", "100", "150.00"} |->
     IF digits = "0.00" THEN 0 ELSE IF digits = "100" THEN 10000 ELSE 15000]

\* line.match(/(?:Rs|MUR|...)\s*(\d+(?:\.\d{2})?)/i): the captured digits,
\* or the empty string for no match.
AmountPattern(line) ==
  IF line.word \in {"Rs", "MUR"} /\ line.rest \in DOMAIN ParseFloat
  THEN line.rest ELSE ""

\* line.match(/(?:ref|reference|note|description).*?(TCK\w+)/i)
ReferencePattern(line) ==
  IF line.word \in {"Ref", "Note"} /\ line.rest \in {"TCK1", "TCK2"}
  THEN line.rest ELSE ""

\* line.match(/(?:transaction|trans|id).*?(\w{8,})/i)
TransactionPattern(line) ==
  IF line.word = "Transaction" /\ line.rest = "TXN12345" THEN line.rest ELSE ""

\* line.match(/(?:to|recipient).*?(\+?\d{3}\s?\d{4}\s?\d{4})/i)
RecipientPattern(line) ==
  IF line.word = "To" /\ line.rest = "+230 5123 4567" THEN line.rest ELSE ""

\* receiptData before the loop: every field null.
NullData == [amount |-> NoAmount, reference |-> "", transactionId |-> "", recipient |-> ""]

\* The loop body of parseReceiptData on one line.  The amount, the
\* transaction id and the recipient are assigned when the line matches and
\* the field is still falsy (null, or an amount of 0); the reference is
\* assigned whenever the line matches.  (The date and the time, which
\* nothing reads, are left out.)
ReadLine(data, line) ==
  [ amount |->
      IF AmountPattern(line) # "" /\ ~AmountFound(data.amount)
      THEN ParseFloat[AmountPattern(line)] ELSE data.amount,
    reference |->
      IF ReferencePattern(line) # "" THEN ReferencePattern(line) ELSE data.reference,
    transactionId |->
      IF TransactionPattern(line) # "" /\ data.transactionId = ""
      THEN TransactionPattern(line) ELSE data.transactionId,
    recipient |->
      IF RecipientPattern(line) # "" /\ data.recipient = ""
      THEN RecipientPattern(line) ELSE data.recipient ]

\* Extracted texts, as their lines.
Texts == UNION { [1..n -> Lines] : n \in 0..MaxLines }

\* No call of parseReceiptData.
NoParse == [pc |-> "none", lines |-> << >>, at |-> 0, data |-> NullData]

\* ------------------------------------------------------- the live playlist
Voters == 1..MaxVoters

\* voteType as a request may send it.
SentVoteTypes == {"up", "down", "sideways"}

\* The playlist of the event with one requested song in its queue.
NewPlaylist(votingEnabled) ==
  [votingEnabled |-> votingEnabled, votes |-> << >>, voteScore |-> 0, totalVotes |-> 0]

\* No vote request yet.
NoVote == [userId |-> 0, songId |-> "none", voteType |-> "none", code |-> 0, count |-> 0]

\* song.votes.findIndex(vote => vote.userId.toString() === req.user.userId),
\* with 0 for -1.
ExistingVoteIndex(votes, userId) ==
  IF \E i \in DOMAIN votes : votes[i].userId = userId
  THEN CHOOSE i \in DOMAIN votes :
         /\ votes[i].userId = userId
         /\ \A j \in DOMAIN votes : votes[j].userId = userId => i <= j
  ELSE 0

\* CastVote with a changed vote moving the score by one.
CastVoteChangingByOne(list, userId, voteType) ==
  LET index == ExistingVoteIndex(list.votes, userId)
  IN  IF index # 0
      THEN [list EXCEPT !.voteScore = @ + (IF voteType = "up" THEN 1 ELSE 0 - 1),
                        !.votes[index].voteType = voteType]
      ELSE [list EXCEPT !.votes = Append(@, [userId |-> userId, voteType |-> voteType]),
                        !.voteScore = @ + (IF voteType = "up" THEN 1 ELSE 0 - 1),
                        !.totalVotes = @ + 1]

\* The assignments of the vote handler on the loaded playlist: an existing
\* vote of the other type is turned over and the score moves by two, a
\* first vote is pushed and the score moves by one.
CastVote(list, userId, voteType) ==
  LET index == ExistingVoteIndex(list.votes, userId)
  IN  IF index # 0
      THEN [list EXCEPT !.voteScore = @ + (IF voteType = "up" THEN 2 ELSE 0 - 2),
                        !.votes[index].voteType = voteType]
      ELSE [list EXCEPT !.votes = Append(@, [userId |-> userId, voteType |-> voteType]),
                        !.voteScore = @ + (IF voteType = "up" THEN 1 ELSE 0 - 1),
                        !.totalVotes = @ + 1]

\* Tier with the grace band folded into immediate approval.
TierApprovesGraceBand(verification) ==
  IF verification.confidence >= GraceThreshold THEN "approve"
  ELSE IF verification.confidence >= QuickReviewThreshold THEN "quick_review"
  ELSE "low_confidence"

\* Tier with a quick-review band below the grace band.
TierWithQuickReviewBand(verification) ==
  IF verification.isValid /\ verification.confidence >= ApproveThreshold THEN "approve"
  ELSE IF verification.confidence >= GraceThreshold THEN "grace"
  ELSE IF verification.confidence >= 0 THEN "quick_review"
  ELSE "low_confidence"

\* Tier with the quick-review test placed ahead of the grace test.
TierQuickReviewFirst(verification) ==
  IF verification.isValid /\ verification.confidence >= ApproveThreshold THEN "approve"
  ELSE IF verification.confidence >= QuickReviewThreshold THEN "quick_review"
  ELSE IF verification.confidence >= GraceThreshold THEN "grace"
  ELSE "low_confidence"

\* The if / else-if chain of processAutomaticVerification.
Tier(verification) ==
  IF verification.isValid /\ verification.confidence >= ApproveThreshold THEN "approve"
  ELSE IF verification.confidence >= GraceThreshold THEN "grace"
  ELSE IF verification.confidence >= QuickReviewThreshold THEN "quick_review"
  ELSE "low_confidence"

\* ------------------------------------------------------------------ state
VARIABLES
  now,        \* wall clock, in minutes; it advances a grace period at a time
  db,         \* the stored Order document (NoOrder before creation)
  pipeline,   \* the setImmediate task running processAutomaticVerification
  timers,     \* runs of the setTimeout callback scheduled by the grace tier
  reqs,       \* the HTTP verification requests in flight
  calls,      \* invocations of generateAndSendTickets, per caller
  generated,  \* successful runs of generateTicketsForOrder
  delivered   \* ticket e-mails accepted by the mail transport

vars == <<now, db, pipeline, timers, reqs, calls, generated, delivered>>

VARIABLES
  ticketType, \* the event's ticket type record: its quantity and sold counters
  shoppers,   \* POST /:id/purchase and POST /create-order requests in flight
  receipt,    \* the arguments of a call of verifyReceipt
  verdict     \* what that call returned

VARIABLES
  parser      \* a call of parseReceiptData: the lines, the loop, the record

VARIABLES
  playlist,   \* the live playlist of the event: its voting switch and one song
  vote        \* the latest vote request and its answer

eventVars == <<ticketType, shoppers>>
scorerVars == <<receipt, verdict>>
parserVars == <<parser>>
playlistVars == <<playlist, vote>>

\* What the handlers of the order's verification never touch.
besideOrder == <<eventVars, scorerVars, parserVars, playlistVars>>

\* What the requests on the event's inventory never touch.
besideEvent == <<vars, scorerVars, parserVars, playlistVars>>

\* What a call of verifyReceipt never touches.
besideScorer == <<vars, eventVars, parserVars, playlistVars>>

\* What a call of parseReceiptData never touches.
besideParser == <<vars, eventVars, scorerVars, playlistVars>>

\* What a vote on a song never touches.
besidePlaylist == <<vars, eventVars, scorerVars, parserVars>>

state == <<vars, eventVars, scorerVars, parserVars, playlistVars>>

Requests == 1..MaxRequests

\* The callback runs once per setTimeout; the further runs are the repeated
\* firing of SpecTimerTwice.
Timers == 1..TimerRuns

Routes == {"admin_approve", "admin_reject", "put_verify", "put_order",
           "manual_verify", "manual_reject"}

\* paymentStatus values sent in the body of the two PUT endpoints.
PutStatuses == {"completed", "failed", "refunded"}

NoVerification ==
  [isValid |-> FALSE, confidence |-> 0 - 1,
   checks |-> ChecksOf(<<FALSE, FALSE, FALSE, FALSE>>), issues |-> << >>]

IdlePipeline == [pc |-> "none", d |-> Loaded(NoOrder), verification |-> NoVerification]
IdleTimer    == [pc |-> "none", due |-> NoDate, d |-> Loaded(NoOrder)]
Waiting(due) == [pc |-> "waiting", due |-> due, d |-> Loaded(NoOrder)]
IdleRequest  == [pc |-> "idle", route |-> "none", status |-> "none",
                 d |-> Loaded(NoOrder), code |-> 0]

Shoppers == 1..MaxShoppers

NoBody == [complete |-> FALSE, tickets |-> TicketLine("none", 0)]

\* No call of verifyReceipt.
NoReceipt ==
  [extraction |-> "none",
   data |-> [amount |-> NoAmount, reference |-> "", transactionId |-> "", recipient |-> << >>],
   expectedAmount |-> 0, expectedReference |-> "", expectedRecipient |-> << >>]

IdleShopper == [pc |-> "idle", route |-> "none", body |-> NoBody, sold |-> 0, code |-> 0]

Init ==
  /\ now = 0
  /\ db = NoOrder
  /\ pipeline = IdlePipeline
  /\ timers = [k \in Timers |-> IdleTimer]
  /\ reqs = [r \in Requests |-> IdleRequest]
  /\ calls = [pipeline |-> 0, timer |-> 0, request |-> 0]
  /\ generated = 0
  /\ delivered = 0

\* --------------------------------------------------------------- the clock
Tick ==
  /\ now < MaxTicks * GraceMinutes
  /\ now' = now + GraceMinutes
  /\ UNCHANGED <<db, pipeline, timers, reqs, calls, generated, delivered>>
  /\ UNCHANGED besideOrder

\* ---------------------------------------------------------- order creation
\* A complete request for one ticket of the event's ticket type.
PlainBody == [complete |-> TRUE, tickets |-> TicketLine("standard", 1)]

\* POST /api/orders/mcb-juice : stores the order in pending_verification and
\* queues processAutomaticVerification(savedOrder, event) with setImmediate.
\* The body is checked for its required fields and the screenshot, and the
\* event is looked up; the ticket lines are stored as sent.
CreateMcbJuiceOrder(body) ==
  /\ db = NoOrder
  /\ body.complete
  /\ db' = [NewOrder("mcb-juice", "pending_verification", << >>)
              EXCEPT !.tickets = body.tickets]
  /\ pipeline' = [pc |-> "scheduled", d |-> Loaded(db'), verification |-> NoVerification]
  /\ UNCHANGED <<now, timers, reqs, calls, generated, delivered>>
  /\ UNCHANGED besideOrder

\* POST /api/orders/mcb-juice-whatsapp : no background verification.
CreateWhatsAppOrder ==
  /\ db = NoOrder
  /\ db' = NewOrder("mcb-juice-whatsapp", "pending_whatsapp_verification",
                    <<"awaiting_organizer">>)
  /\ UNCHANGED <<now, pipeline, timers, reqs, calls, generated, delivered>>
  /\ UNCHANGED besideOrder

\* ---------------------------------------------------- generateAndSendTickets
\* generateTicketsForOrder, then sendTicketEmailWithAttachments; the first
\* throw is logged and rethrown, so a failed generation sends nothing.
Outcomes == {"sent", "generation_failed", "delivery_failed"}

\* Fulfil with the e-mail going out whether or not the tickets were made.
FulfilSendingRegardless(caller, outcome) ==
  /\ calls' = [calls EXCEPT ![caller] = @ + 1]
  /\ generated' = IF outcome = "generation_failed" THEN generated ELSE generated + 1
  /\ delivered' = IF outcome = "delivery_failed" THEN delivered ELSE delivered + 1

\* One run of generateAndSendTickets on behalf of caller.
Fulfil(caller, outcome) ==
  /\ calls' = [calls EXCEPT ![caller] = @ + 1]
  /\ generated' = IF outcome = "generation_failed" THEN generated ELSE generated + 1
  /\ delivered' = IF outcome = "sent" THEN delivered + 1 ELSE delivered

\* ---------------------------------------------- processAutomaticVerification
\* Route with the low-confidence branch assigning its note where the code
\* appends it.
RouteReplacingNotes(d, verification, t) ==
  LET noted == SetPath(d, "verificationNotes", <<AutomaticNote(verification)>>)
      tier  == Tier(verification)
  IN  IF tier = "approve" THEN
        SetPath(SetDate(SetPath(noted, "paymentStatus", "completed"),
                        "verifiedAt", t), "verifiedBy", "null")
      ELSE IF tier = "grace" THEN
        SetDate(SetPath(SetPath(noted, "paymentStatus", "pending_auto_approval"),
                        "verificationNotes",
                        Append(noted.doc.verificationNotes, "grace")),
                "autoApprovalAt", t + GraceMinutes)
      ELSE IF tier = "quick_review" THEN
        SetPath(SetPath(SetPath(noted, "paymentStatus", "pending_quick_review"),
                        "verificationNotes",
                        Append(noted.doc.verificationNotes, "quick_review")),
                "reviewPriority", "high")
      ELSE
        SetPath(SetPath(SetDate(SetPath(noted, "paymentStatus", "completed"),
                                "verifiedAt", t), "verifiedBy", "null"),
                "verificationNotes", <<"low_confidence">>)

\* The assignments of the branch chosen by Tier, up to the call of save().
\* The first note carries the confidence and the issues; the branches
\* append theirs.
Route(d, verification, t) ==
  LET noted == SetPath(d, "verificationNotes", <<AutomaticNote(verification)>>)
      tier  == Tier(verification)
  IN  IF tier = "approve" THEN
        SetPath(SetDate(SetPath(noted, "paymentStatus", "completed"),
                        "verifiedAt", t), "verifiedBy", "null")
      ELSE IF tier = "grace" THEN
        SetDate(SetPath(SetPath(noted, "paymentStatus", "pending_auto_approval"),
                        "verificationNotes",
                        Append(noted.doc.verificationNotes, "grace")),
                "autoApprovalAt", t + GraceMinutes)
      ELSE IF tier = "quick_review" THEN
        SetPath(SetPath(SetPath(noted, "paymentStatus", "pending_quick_review"),
                        "verificationNotes",
                        Append(noted.doc.verificationNotes, "quick_review")),
                "reviewPriority", "high")
      ELSE
        SetPath(SetPath(SetDate(SetPath(noted, "paymentStatus", "completed"),
                                "verifiedAt", t), "verifiedBy", "null"),
                "verificationNotes",
                Append(noted.doc.verificationNotes, "low_confidence"))

\* The catch block of processAutomaticVerification, up to its save().
Catch(d, t) ==
  SetPath(SetPath(SetDate(SetPath(d, "paymentStatus", "completed"),
                          "verifiedAt", t), "verifiedBy", "null"),
          "verificationNotes", <<"verification_failed">>)

\* verifyReceipt resolves; the branch sets its fields and calls save().
PipelineVerify(verification) ==
  /\ pipeline.pc = "scheduled"
  /\ pipeline' = [pc |-> "save", d |-> Route(pipeline.d, verification, now),
                  verification |-> verification]
  /\ UNCHANGED <<now, db, timers, reqs, calls, generated, delivered>>
  /\ UNCHANGED besideOrder

\* The branch's save() reaches the store; the grace tier then sets the timer.
PipelineSave ==
  /\ pipeline.pc = "save"
  /\ db' = Save(db, pipeline.d)
  /\ LET tier == Tier(pipeline.verification)
     IN  /\ pipeline' = IF tier \in {"approve", "low_confidence"}
                         THEN [pipeline EXCEPT !.pc = "fulfil", !.d = Saved(@)]
                         ELSE [pipeline EXCEPT !.pc = "done", !.d = Loaded(NoOrder)]
         /\ timers' = IF tier = "grace"
                      THEN [timers EXCEPT ![1] = Waiting(now + GraceMinutes)]
                      ELSE timers
  /\ UNCHANGED <<now, reqs, calls, generated, delivered>>
  /\ UNCHANGED besideOrder

\* generateAndSendTickets inside the try block; a throw lands in the catch,
\* which sets its fields and calls save().
PipelineFulfil(outcome) ==
  /\ pipeline.pc = "fulfil"
  /\ Fulfil("pipeline", outcome)
  /\ pipeline' = IF outcome = "sent"
                 THEN [pipeline EXCEPT !.pc = "done", !.d = Loaded(NoOrder)]
                 ELSE [pipeline EXCEPT !.pc = "catch_save", !.d = Catch(@, now)]
  /\ UNCHANGED <<now, db, timers, reqs>>
  /\ UNCHANGED besideOrder

\* The catch block's save().
PipelineCatchSave ==
  /\ pipeline.pc = "catch_save"
  /\ db' = Save(db, pipeline.d)
  /\ pipeline' = [pipeline EXCEPT !.d = Saved(@), !.pc = "catch_fulfil"]
  /\ UNCHANGED <<now, timers, reqs, calls, generated, delivered>>
  /\ UNCHANGED besideOrder

\* The catch block's own generateAndSendTickets; its failure is only logged.
PipelineCatchFulfil(outcome) ==
  /\ pipeline.pc = "catch_fulfil"
  /\ Fulfil("pipeline", outcome)
  /\ pipeline' = [pipeline EXCEPT !.pc = "done", !.d = Loaded(NoOrder)]
  /\ UNCHANGED <<now, db, timers, reqs>>
  /\ UNCHANGED besideOrder

\* ------------------------------------------------ the grace-period callback
\* The re-check weakened to "not completed yet".
TimerGuardNotCompleted(current) == current.paymentStatus # "completed"

\* The re-check of the setTimeout callback on the order it has just read.
TimerGuard(current) == current.paymentStatus = "pending_auto_approval"

\* AutoApprove without the verification stamp.
AutoApproveUnstamped(d, t) ==
  SetPath(SetPath(SetPath(d, "paymentStatus", "completed"), "verifiedBy", "null"),
          "verificationNotes", Append(d.doc.verificationNotes, "grace_elapsed"))

\* The callback's assignments on the document it read, up to its save().
AutoApprove(d, t) ==
  SetPath(SetPath(SetDate(SetPath(d, "paymentStatus", "completed"),
                          "verifiedAt", t), "verifiedBy", "null"),
          "verificationNotes", Append(d.doc.verificationNotes, "grace_elapsed"))

\* The timeout elapses: findById, then the re-check.
TimerFire(k) ==
  /\ timers[k].pc = "waiting"
  /\ now >= timers[k].due
  /\ timers' = IF TimerGuard(db)
               THEN [timers EXCEPT ![k].pc = "save", ![k].d = AutoApprove(Loaded(db), now)]
               ELSE [timers EXCEPT ![k].pc = "skipped"]
  /\ UNCHANGED <<now, db, pipeline, reqs, calls, generated, delivered>>
  /\ UNCHANGED besideOrder

\* currentOrder.save()
TimerSave(k) ==
  /\ timers[k].pc = "save"
  /\ db' = Save(db, timers[k].d)
  /\ timers' = [timers EXCEPT ![k].d = Saved(@), ![k].pc = "fulfil"]
  /\ UNCHANGED <<now, pipeline, reqs, calls, generated, delivered>>
  /\ UNCHANGED besideOrder

\* generateAndSendTickets(currentOrder, ...); the callback's catch only logs.
TimerFulfil(k, outcome) ==
  /\ timers[k].pc = "fulfil"
  /\ Fulfil("timer", outcome)
  /\ timers' = [timers EXCEPT ![k].pc = "done", ![k].d = Loaded(NoOrder)]
  /\ UNCHANGED <<now, db, pipeline, reqs>>
  /\ UNCHANGED besideOrder

\* ------------------------------------------------- verification requests
\* The status guard of each endpoint on the order it has just read.
StatusGuard(route, current) ==
  IF route \in {"admin_approve", "admin_reject"}
  THEN current.paymentStatus \in PendingFamily
  ELSE IF route \in {"manual_verify", "manual_reject"}
  THEN current.paymentStatus = "pending_verification"
  ELSE TRUE

\* POST /api/admin/orders/:id/verify, action approve: the fields set after
\* the tickets and the confirmation have gone out.
AdminApprove(d, t) ==
  SetPath(SetDate(SetPath(SetPath(d, "paymentStatus", "completed"),
                          "verifiedBy", "admin"), "verifiedAt", t),
          "verificationNotes", <<"approved_by_admin">>)

\* POST /api/admin/orders/:id/verify, action reject.
AdminReject(d, t) ==
  SetPath(SetDate(SetPath(SetPath(d, "paymentStatus", "failed"),
                          "verifiedBy", "admin"), "verifiedAt", t),
          "verificationNotes", <<"rejected_by_admin">>)

\* PUT /api/orders/:id/verify with paymentStatus, verificationNotes, verifiedBy.
PutVerify(d, status, t) ==
  SetDate(SetPath(SetPath(SetPath(d, "paymentStatus", status),
                          "verificationNotes", <<"verified_by_put">>),
                  "verifiedBy", "admin"), "verifiedAt", t)

\* PUT /api/orders/:id with paymentStatus.
PutOrder(d, status) == SetPath(d, "paymentStatus", status)

\* POST /api/mcb-juice-manual/admin/verify-payment/:orderId
ManualVerify(d, t) ==
  SetDate(SetPath(SetPath(SetPath(d, "paymentStatus", "completed"),
                          "verificationNotes", <<"verified_manually">>),
                  "verifiedBy", "admin"), "verifiedAt", t)

\* POST /api/mcb-juice-manual/admin/reject-payment/:orderId
ManualReject(d, t) ==
  SetDate(SetPath(SetPath(SetPath(d, "paymentStatus", "failed"),
                          "verificationNotes", <<"rejected_manually">>),
                  "verifiedBy", "admin"), "verifiedAt", t)

\* The handler answers; its document goes out of scope.
Answer(req, code) ==
  [req EXCEPT !.pc = "done", !.code = code, !.status = "none", !.d = Loaded(NoOrder)]

Done(r, code) == [reqs EXCEPT ![r] = Answer(@, code)]

\* A request arrives (the manual endpoints: with an admin token): findById,
\* the endpoint's guard, and the assignments that precede its first await.
\* Requests are taken in slot order.
RequestStart(r, route, status) ==
  /\ reqs[r].pc = "idle"
  /\ IF r = 1 THEN TRUE ELSE reqs[r - 1].pc # "idle"
  /\ status \in (IF route \in {"put_verify", "put_order"} THEN PutStatuses ELSE {"none"})
  /\ LET begun == [reqs[r] EXCEPT !.route = route, !.status = status, !.d = Loaded(db)]
         d == begun.d
     IN reqs' = [reqs EXCEPT ![r] =
          IF db = NoOrder THEN Answer(begun, 404)
          ELSE IF ~StatusGuard(route, db) THEN Answer(begun, 400)
          ELSE IF route = "admin_approve" THEN [begun EXCEPT !.pc = "fulfil"]
          ELSE IF route = "admin_reject"
               THEN [begun EXCEPT !.pc = "save", !.d = AdminReject(d, now)]
          ELSE IF route = "put_verify"
               THEN [begun EXCEPT !.pc = "save", !.d = PutVerify(d, status, now)]
          ELSE IF route = "put_order"
               THEN [begun EXCEPT !.pc = "save", !.d = PutOrder(d, status)]
          ELSE IF route = "manual_verify"
               THEN [begun EXCEPT !.pc = "save", !.d = ManualVerify(d, now)]
          ELSE [begun EXCEPT !.pc = "save", !.d = ManualReject(d, now)]]
  /\ UNCHANGED <<now, db, pipeline, timers, calls, generated, delivered>>
  /\ UNCHANGED besideOrder

\* The two manual endpoints answer before touching the order when the
\* token carries no admin role (403; the tokens of routes/auth.js carry
\* none), and with 500 when populate('event') is refused because the Order
\* schema has no such path.
RequestRefused(r, route, code) ==
  /\ reqs[r].pc = "idle"
  /\ IF r = 1 THEN TRUE ELSE reqs[r - 1].pc # "idle"
  /\ route \in {"manual_verify", "manual_reject"}
  /\ code \in {403, 500}
  /\ reqs' = [reqs EXCEPT ![r] = Answer([@ EXCEPT !.route = route], code)]
  /\ UNCHANGED <<now, db, pipeline, timers, calls, generated, delivered>>
  /\ UNCHANGED besideOrder

\* RequestFulfil with the admin approval going on to its save() whatever
\* generateAndSendTickets did.
RequestFulfilIgnoringFailure(r, outcome) ==
  /\ reqs[r].pc = "fulfil"
  /\ Fulfil("request", outcome)
  /\ reqs' = IF reqs[r].route = "admin_approve"
             THEN [reqs EXCEPT ![r].pc = "save", ![r].d = AdminApprove(@, now)]
             ELSE Done(r, 200)
  /\ UNCHANGED <<now, db, pipeline, timers>>
  /\ UNCHANGED besideOrder

\* generateAndSendTickets on behalf of a request.  The admin approval runs
\* it before touching the order: a throw answers 500, success is followed by
\* sendWhatsAppConfirmation (which only logs), the assignments and save().
\* PUT /:id/verify runs it after its save() and only logs a throw.
RequestFulfil(r, outcome) ==
  /\ reqs[r].pc = "fulfil"
  /\ Fulfil("request", outcome)
  /\ reqs' = IF reqs[r].route = "admin_approve"
             THEN IF outcome = "sent"
                  THEN [reqs EXCEPT ![r].pc = "save", ![r].d = AdminApprove(@, now)]
                  ELSE Done(r, 500)
             ELSE Done(r, 200)
  /\ UNCHANGED <<now, db, pipeline, timers>>
  /\ UNCHANGED besideOrder

\* The request's save() reaches the store.  A rejection then enters its
\* inventory loop, which dereferences order.event, a path the Order schema
\* does not have: the TypeError is caught and answered with 500.
RequestSave(r) ==
  /\ reqs[r].pc = "save"
  /\ db' = Save(db, reqs[r].d)
  /\ LET route == reqs[r].route
     IN reqs' =
          IF route \in {"admin_reject", "manual_reject"}
          THEN Done(r, 500)
          ELSE IF route = "put_verify" /\ reqs[r].status = "completed"
          THEN [reqs EXCEPT ![r].pc = "fulfil", ![r].d = Saved(@)]
          ELSE Done(r, 200)
  /\ UNCHANGED <<now, pipeline, timers, calls, generated, delivered>>
  /\ UNCHANGED besideOrder

\* ------------------------------------------------------------ specification
Next ==
  \/ Tick
  \/ \E body \in {PlainBody} : CreateMcbJuiceOrder(body)
  \/ CreateWhatsAppOrder
  \/ \E verification \in VerificationResults : PipelineVerify(verification)
  \/ PipelineSave
  \/ \E outcome \in Outcomes : PipelineFulfil(outcome)
  \/ PipelineCatchSave
  \/ \E outcome \in Outcomes : PipelineCatchFulfil(outcome)
  \/ \E k \in Timers : TimerFire(k)
  \/ \E k \in Timers : TimerSave(k)
  \/ \E k \in Timers, outcome \in Outcomes : TimerFulfil(k, outcome)
  \/ \E r \in Requests, route \in Routes, status \in PutStatuses \cup {"none"} :
       RequestStart(r, route, status)
  \/ \E r \in Requests, route \in Routes, code \in {403, 500} :
       RequestRefused(r, route, code)
  \/ \E r \in Requests, outcome \in Outcomes : RequestFulfil(r, outcome)
  \/ \E r \in Requests : RequestSave(r)

\* The event as the order finds it; nobody is buying.
InitEvent ==
  /\ ticketType = [quantity |-> Stock, sold |-> 0]
  /\ shoppers = [s \in Shoppers |-> IdleShopper]

\* No call of verifyReceipt under study.
InitScorer ==
  /\ receipt = NoReceipt
  /\ verdict = NoVerification

\* No call of parseReceiptData under study.
InitParser == parser = NoParse

\* The playlist with its song just requested; nobody has voted.
InitPlaylist ==
  /\ playlist = NewPlaylist(TRUE)
  /\ vote = NoVote

\* Before the order is placed.
InitAll == Init /\ InitEvent /\ InitScorer /\ InitParser /\ InitPlaylist

Spec == InitAll /\ [][Next]_state

\* ------------------------------------------- the callback fired twice over
\* The order as the grace tier leaves it, its grace period over, with the
\* callback about to run TimerRuns times for it while admin requests arrive.
GraceResult ==
  CHOOSE verification \in VerificationResults : verification.confidence = GraceThreshold

InitTimerTwice ==
  /\ now = GraceMinutes
  /\ db = Save(NewOrder("mcb-juice", "pending_verification", << >>),
               Route(Loaded(NewOrder("mcb-juice", "pending_verification", << >>)),
                     GraceResult, 0))
  /\ pipeline = [pc |-> "done", d |-> Loaded(NoOrder), verification |-> GraceResult]
  /\ timers = [k \in Timers |-> Waiting(GraceMinutes)]
  /\ reqs = [r \in Requests |-> IdleRequest]
  /\ calls = [pipeline |-> 0, timer |-> 0, request |-> 0]
  /\ generated = 0
  /\ delivered = 0

NextTimerTwice ==
  \/ \E k \in Timers : TimerFire(k)
  \/ \E k \in Timers : TimerSave(k)
  \/ \E k \in Timers, outcome \in Outcomes : TimerFulfil(k, outcome)
  \/ \E r \in Requests, route \in {"admin_approve", "admin_reject"} :
       RequestStart(r, route, "none")
  \/ \E r \in Requests, outcome \in Outcomes : RequestFulfil(r, outcome)
  \/ \E r \in Requests : RequestSave(r)

InitAllTimerTwice ==
  InitTimerTwice /\ InitEvent /\ InitScorer /\ InitParser /\ InitPlaylist

SpecTimerTwice == InitAllTimerTwice /\ [][NextTimerTwice]_state


\* ------------------------------------------------- the grace period, unattended
\* Time passes: up to the horizon of the model, and for as long as a
\* scheduled callback is not due yet.
TimePasses ==
  /\ \/ now < MaxTicks * GraceMinutes
     \/ \E k \in Timers : timers[k].pc = "waiting" /\ now < timers[k].due
  /\ now' = now + GraceMinutes
  /\ UNCHANGED <<db, pipeline, timers, reqs, calls, generated, delivered>>
  /\ UNCHANGED besideOrder

PipelineStep ==
  \/ \E verification \in VerificationResults : PipelineVerify(verification)
  \/ PipelineSave
  \/ \E outcome \in Outcomes : PipelineFulfil(outcome)
  \/ PipelineCatchSave
  \/ \E outcome \in Outcomes : PipelineCatchFulfil(outcome)

TimerStep ==
  \/ \E k \in Timers : TimerFire(k)
  \/ \E k \in Timers : TimerSave(k)
  \/ \E k \in Timers, outcome \in Outcomes : TimerFulfil(k, outcome)

\* An order placed through POST /mcb-juice on which no verification request
\* is ever made.
NextUnattended ==
  \/ TimePasses
  \/ \E body \in {PlainBody} : CreateMcbJuiceOrder(body)
  \/ \E verification \in VerificationResults : PipelineVerify(verification)
  \/ PipelineSave
  \/ \E outcome \in Outcomes : PipelineFulfil(outcome)
  \/ PipelineCatchSave
  \/ \E outcome \in Outcomes : PipelineCatchFulfil(outcome)
  \/ \E k \in Timers : TimerFire(k)
  \/ \E k \in Timers : TimerSave(k)
  \/ \E k \in Timers, outcome \in Outcomes : TimerFulfil(k, outcome)

\* The process stays up: the clock advances, the event loop runs the
\* setImmediate task and the setTimeout callback, and every await of a
\* store operation or of generateAndSendTickets settles.
Liveness ==
  /\ WF_state(TimePasses)
  /\ WF_state(PipelineStep)
  /\ WF_state(TimerStep)

SpecUnattended == InitAll /\ [][NextUnattended]_state /\ Liveness

\* ------------------------------------------- routing, whatever the scorer says
\* Every pair of a confidence percentage and a validity flag, consistent
\* with one another or not.
AnyResults ==
  { [isValid |-> v, confidence |-> c,
     checks |-> ChecksOf(<<FALSE, FALSE, FALSE, FALSE>>), issues |-> << >>] :
      v \in BOOLEAN, c \in 0..100 }

\* processAutomaticVerification on a verification of any shape, with the
\* callback it may schedule.
NextRouting ==
  \/ TimePasses
  \/ \E body \in {PlainBody} : CreateMcbJuiceOrder(body)
  \/ \E verification \in AnyResults : PipelineVerify(verification)
  \/ PipelineSave
  \/ \E outcome \in Outcomes : PipelineFulfil(outcome)
  \/ PipelineCatchSave
  \/ \E outcome \in Outcomes : PipelineCatchFulfil(outcome)
  \/ \E k \in Timers : TimerFire(k)
  \/ \E k \in Timers : TimerSave(k)
  \/ \E k \in Timers, outcome \in Outcomes : TimerFulfil(k, outcome)

SpecRouting == InitAll /\ [][NextRouting]_state

\* ---------------------------------------------------- the event's inventory
\* Request bodies: with or without the required fields, naming the event's
\* ticket type or one it does not have, asking for one ticket, for all the
\* event has or for more than it ever had.
Bodies ==
  { [complete |-> c, tickets |-> TicketLine(t, q)] :
      c \in BOOLEAN, t \in {"standard", "unknown"}, q \in {1, Stock, Stock + 1} }

\* event.ticketTypes.find(...) on the ticket type a body names.
KnownTicketType(ticketTypeId) == ticketTypeId = "standard"

Finished(shopper, code) == [shopper EXCEPT !.pc = "done", !.code = code]

\* POST /api/mcb-juice-manual/create-order up to order.save(): the required
\* fields, the ticket type and the availability read from the event (400).
ManualCreateStart(s, body) ==
  /\ shoppers[s].pc = "idle"
  /\ IF s = 1 THEN TRUE ELSE shoppers[s - 1].pc # "idle"
  /\ LET begun == [shoppers[s] EXCEPT !.route = "create_order", !.body = body]
     IN shoppers' = [shoppers EXCEPT ![s] =
          IF ~body.complete THEN Finished(begun, 400)
          ELSE IF ~KnownTicketType(body.tickets.ticketTypeId) THEN Finished(begun, 400)
          ELSE IF ticketType.quantity < body.tickets.quantity THEN Finished(begun, 400)
          ELSE [begun EXCEPT !.pc = "order_save"]]
  /\ UNCHANGED ticketType
  /\ UNCHANGED besideEvent

\* ManualCreateSave with order.save() accepting the document: the $inc of
\* the ticket type's quantity follows and the request answers 201.
ManualCreateSaveAccepted(s) ==
  /\ shoppers[s].pc = "order_save"
  /\ ticketType' = [ticketType EXCEPT !.quantity = @ - shoppers[s].body.tickets.quantity]
  /\ shoppers' = [shoppers EXCEPT ![s] = Finished(@, 201)]
  /\ UNCHANGED besideEvent

\* order.save() of create-order is refused by the Order schema (500): the
\* document is built with event and user, paths the schema does not have,
\* and without eventId, which it requires.  The $inc that follows the save
\* is therefore never issued.
ManualCreateSave(s) ==
  /\ shoppers[s].pc = "order_save"
  /\ shoppers' = [shoppers EXCEPT ![s] = Finished(@, 500)]
  /\ UNCHANGED ticketType
  /\ UNCHANGED besideEvent

\* POST /api/events/:id/purchase up to event.save(): findById, the ticket
\* type, the check of sold against quantity, and ticket.sold += quantity on
\* the loaded document.
PurchaseStart(s, body) ==
  /\ shoppers[s].pc = "idle"
  /\ IF s = 1 THEN TRUE ELSE shoppers[s - 1].pc # "idle"
  /\ body.complete
  /\ LET begun == [shoppers[s] EXCEPT !.route = "purchase", !.body = body]
     IN shoppers' = [shoppers EXCEPT ![s] =
          IF ~KnownTicketType(body.tickets.ticketTypeId) THEN Finished(begun, 400)
          ELSE IF ticketType.sold + body.tickets.quantity > ticketType.quantity
               THEN Finished(begun, 400)
          ELSE [begun EXCEPT !.pc = "save",
                             !.sold = ticketType.sold + body.tickets.quantity]]
  /\ UNCHANGED ticketType
  /\ UNCHANGED besideEvent

\* event.save(): the sold counter computed on the loaded document is $set.
\* A concurrent purchase does not advance the version key this update is
\* matched against, so the update applies.
PurchaseSave(s) ==
  /\ shoppers[s].pc = "save"
  /\ ticketType' = [ticketType EXCEPT !.sold = shoppers[s].sold]
  /\ shoppers' = [shoppers EXCEPT ![s] = Finished(@, 200)]
  /\ UNCHANGED besideEvent

\* The enum of orderSchema.paymentMethod.
PaymentMethods ==
  {"card", "mcb-juice", "mcb-juice-manual", "mcb-juice-whatsapp",
   "bank_transfer", "bank-transfer-whatsapp"}

\* What the body of POST /api/orders may carry as paymentMethod and
\* paymentStatus; the empty string is a field left out.
SentMethods == {"", "card", "mcb-juice"}
SentStatuses == {"", "pending", "completed"}

\* value || fallback
OrElse(value, fallback) == IF value = "" THEN fallback ELSE value

\* POST /api/orders : the order is stored with the paymentMethod and the
\* paymentStatus of the body, 'card' and 'completed' standing in for the
\* ones left out; the schema's enums are checked by save().  No background
\* verification is queued.
CreateOrder(body, method, status) ==
  /\ db = NoOrder
  /\ body.complete
  /\ OrElse(method, "card") \in PaymentMethods
  /\ OrElse(status, "completed") \in PaymentStatuses
  /\ db' = [NewOrder(OrElse(method, "card"), OrElse(status, "completed"), << >>)
              EXCEPT !.tickets = body.tickets]
  /\ UNCHANGED <<now, pipeline, timers, reqs, calls, generated, delivered>>
  /\ UNCHANGED besideOrder

\* Orders being created and tickets being bought for one event.
NextEvent ==
  \/ \E body \in Bodies : CreateMcbJuiceOrder(body)
  \/ CreateWhatsAppOrder
  \/ \E body \in {PlainBody}, method \in SentMethods, status \in SentStatuses :
       CreateOrder(body, method, status)
  \/ \E s \in Shoppers, body \in Bodies : ManualCreateStart(s, body)
  \/ \E s \in Shoppers : ManualCreateSave(s)
  \/ \E s \in Shoppers, body \in Bodies : PurchaseStart(s, body)
  \/ \E s \in Shoppers : PurchaseSave(s)

SpecEvent == InitAll /\ [][NextEvent]_state


\* ------------------------------------------------------ the scorer alone
\* A call of verifyReceipt is about to be made.
InitReceiptCall ==
  /\ Init
  /\ InitEvent
  /\ receipt \in ReceiptCalls
  /\ verdict = NoVerification
  /\ InitParser
  /\ InitPlaylist

\* The call returns.
VerifyReceiptReturns ==
  /\ verdict = NoVerification
  /\ verdict' = VerifyReceipt(receipt)
  /\ UNCHANGED receipt
  /\ UNCHANGED besideScorer

NextScorer == VerifyReceiptReturns

SpecScorer == InitReceiptCall /\ [][NextScorer]_state


\* ------------------------------------------------------ the parser alone
\* parseReceiptData is called on a text: the lines are split and receiptData
\* is all null.
InitParseCall ==
  /\ Init
  /\ InitEvent
  /\ InitScorer
  /\ parser \in { [pc |-> "loop", lines |-> text, at |-> 1, data |-> NullData] :
                    text \in Texts }
  /\ InitPlaylist

\* for (const line of lines): one turn of the loop.
ParseLine ==
  /\ parser.pc = "loop"
  /\ parser.at <= Len(parser.lines)
  /\ parser' = [parser EXCEPT !.data = ReadLine(@, parser.lines[parser.at]),
                               !.at = @ + 1]
  /\ UNCHANGED besideParser

\* return receiptData
ParseReturns ==
  /\ parser.pc = "loop"
  /\ parser.at > Len(parser.lines)
  /\ parser' = [parser EXCEPT !.pc = "returned"]
  /\ UNCHANGED besideParser

NextParser == ParseLine \/ ParseReturns

SpecParser == InitParseCall /\ [][NextParser]_state


\* ---------------------------------------------------- votes on the song
\* The playlist with voting switched on or off.
InitVoting ==
  /\ Init
  /\ InitEvent
  /\ InitScorer
  /\ InitParser
  /\ playlist \in {NewPlaylist(enabled) : enabled \in BOOLEAN}
  /\ vote = NoVote

\* POST /events/:eventId/playlist/vote, one request served after the
\* other: the vote type (400), the voting switch (403), the song (404), a
\* repeated vote (400), else the assignments, playlist.save() and 200.
Vote(userId, songId, voteType) ==
  /\ vote.count < MaxVotes
  /\ LET index == ExistingVoteIndex(playlist.votes, userId)
         code ==
           IF voteType \notin {"up", "down"} THEN 400
           ELSE IF ~playlist.votingEnabled THEN 403
           ELSE IF songId # "song" THEN 404
           ELSE IF index # 0 /\ playlist.votes[index].voteType = voteType THEN 400
           ELSE 200
     IN  /\ playlist' = IF code = 200 THEN CastVote(playlist, userId, voteType)
                        ELSE playlist
         /\ vote' = [userId |-> userId, songId |-> songId, voteType |-> voteType,
                     code |-> code, count |-> vote.count + 1]
  /\ UNCHANGED besidePlaylist

NextPlaylist ==
  \E userId \in Voters, songId \in {"song", "gone"}, voteType \in SentVoteTypes :
    Vote(userId, songId, voteType)

SpecPlaylist == InitVoting /\ [][NextPlaylist]_state


\* ------------------------------------------------------ shared vocabulary
\* The statuses without outgoing transitions.
Terminal == {"completed", "failed", "refunded"}

\* The notes an admin decision of POST /api/admin/orders/:id/verify stores.
AdminNotes == {<<"approved_by_admin">>, <<"rejected_by_admin">>}

\* The pipeline has been routed by a confidence of the given band.
Routed(low, high) ==
  /\ pipeline.pc \notin {"none", "scheduled"}
  /\ pipeline.verification.confidence \in low..high

\* Steps, as action formulas.
PipelineRoutes == pipeline.pc = "scheduled" /\ pipeline'.pc = "save"
PipelineWrites == pipeline.pc = "save" /\ pipeline'.pc # "save"
PipelineActs   == pipeline' # pipeline
TimerReads(k)  == timers[k].pc = "waiting" /\ timers'[k].pc # "waiting"
TimerWrites(k) == timers[k].pc = "save" /\ timers'[k].pc = "fulfil"

NoRequestYet == \A r \in Requests : reqs[r].pc = "idle"

\* ------------------------------------------------------------------ claims

\* C1: a fired grace-period callback never changes the stored paymentStatus
\* of an order that an admin approval or rejection has already moved out of
\* pending_auto_approval.
C1_TimerNeverOverridesAdmin ==
  [][\A k \in Timers :
        (/\ TimerWrites(k)
         /\ db.paymentStatus # "pending_auto_approval"
         /\ db.verificationNotes \in AdminNotes)
        => db'.paymentStatus = db.paymentStatus]_vars

\* C2: an order stored as completed by a verification (its verifiedAt is
\* stamped) has already had its tickets generated and delivered.
C2_CompletedImpliesFulfilled ==
  (db.paymentStatus = "completed" /\ db.verifiedAt # NoDate) => delivered >= 1

\* C3: once paymentStatus is completed, failed or refunded, no step of any
\* operation changes it again.
C3_TerminalIsFinal ==
  [][db.paymentStatus \in Terminal => db'.paymentStatus = db.paymentStatus]_vars

\* C4: after an admin decision has been stored, no step of the background
\* pipeline changes the stored paymentStatus, and the pipeline never invokes
\* fulfillment for an order the admin rejected.
C4_PipelineRespectsAdminDecision ==
  [][(/\ PipelineActs
      /\ db.paymentStatus \in {"completed", "failed"}
      /\ db.verificationNotes \in AdminNotes)
     => /\ db'.paymentStatus = db.paymentStatus
        /\ db.paymentStatus = "failed" => calls'.pipeline = calls.pipeline]_vars

\* C5: a pipeline run scored at 40 or more ends with the order completed and
\* with exactly one invocation of fulfillment by the pipeline.
C5_ApprovedFulfilledExactlyOnce ==
  (pipeline.pc = "done" /\ Routed(ApproveThreshold, 100))
  => /\ calls.pipeline = 1
     /\ NoRequestYet => db.paymentStatus = "completed"

C8_DeliveredAtMostOnce ==
  (\A r \in Requests : reqs[r].route \in {"none", "admin_approve"}) => delivered <= 1

\* C9: a callback that fires on an order stored as failed ends at once: it
\* changes no field of the order, invokes no fulfillment, and does nothing
\* afterwards.
C9_TimerAfterRejectIsNoOp ==
  [][\A k \in Timers :
        /\ (TimerReads(k) /\ db.paymentStatus = "failed")
           => /\ timers'[k].pc = "skipped"
              /\ UNCHANGED <<db, calls, generated, delivered>>
        /\ timers[k].pc = "skipped" => timers'[k] = timers[k]]_vars

C9_Witness ==
  /\ timers[1].pc = "skipped"
  /\ db.paymentStatus = "failed"
  /\ db.verificationNotes = <<"rejected_by_admin">>
  /\ calls.timer = 0

\* C10: the callback run twice for one order in pending_auto_approval, with
\* no request in between, makes exactly one invocation of fulfillment.
C10_TwiceFiredFulfilsOnce ==
  (NoRequestYet /\ \A k \in Timers : timers[k].pc \in {"done", "skipped"})
  => calls.timer = 1

\* C11: an admin approval stores completed only after its own
\* generateAndSendTickets succeeded; when that call fails the request writes
\* nothing to the order (paymentStatus, verifiedBy, verifiedAt and
\* verificationNotes stay as stored), answers with an error and does nothing
\* more.
ApprovalsSaving ==
  {r \in Requests : /\ reqs[r].route = "admin_approve"
                    /\ \/ reqs[r].pc = "save"
                       \/ reqs[r].pc = "done" /\ reqs[r].code = 200}

C11_ApproveFulfilsBeforeSave ==
  /\ [](/\ delivered >= Cardinality(ApprovalsSaving)
        /\ \A r \in Requests :
             (reqs[r].route = "admin_approve" /\ reqs[r].pc = "save")
             => reqs[r].d.doc.paymentStatus = "completed")
  /\ [][\A r \in Requests :
          /\ (/\ reqs[r].route = "admin_approve"
              /\ reqs[r].pc = "fulfil"
              /\ reqs'[r].pc # "fulfil"
              /\ delivered' = delivered)
             => /\ reqs'[r].pc = "done"
                /\ reqs'[r].code = 500
                /\ db' = db
          /\ (reqs[r].route = "admin_approve" /\ reqs[r].pc = "done")
             => reqs'[r] = reqs[r]]_vars

C11_Witness ==
  /\ reqs[1].route = "admin_approve"
  /\ reqs[1].pc = "done"
  /\ reqs[1].code = 500
  /\ calls.request = 1
  /\ delivered = 0
  /\ db.paymentStatus = "pending_whatsapp_verification"
  /\ db.verificationNotes = <<"awaiting_organizer">>
  /\ db.verifiedAt = NoDate
  /\ db.verifiedBy = "undefined"

\* The endpoints through which a person verifies a payment.
VerificationRoutes == Routes \ {"put_order"}

\* C12: a manual verification request, through any of the verification
\* endpoints, that finds the order outside the four pending statuses is
\* answered with an error and applies nothing.
C12_OnlyPendingOrdersAreVerified ==
  [][\A r \in Requests :
        (/\ reqs[r].pc = "idle"
         /\ reqs'[r].pc # "idle"
         /\ reqs'[r].route \in VerificationRoutes
         /\ db # NoOrder
         /\ db.paymentStatus \notin PendingFamily)
        => /\ reqs'[r].pc = "done"
           /\ reqs'[r].code >= 400]_vars

\* C13: a rejection stores failed and adds the quantity of the order's
\* ticket line to the quantity of the event's ticket type.
C13_RejectRestoresInventory ==
  [][\A r \in Requests :
        (/\ reqs[r].route \in {"admin_reject", "manual_reject"}
         /\ reqs[r].pc = "save"
         /\ reqs'[r].pc = "done")
        => /\ db'.paymentStatus = "failed"
           /\ ticketType'.quantity = ticketType.quantity + db.tickets.quantity]_vars

C15_VerifyReceiptNeverThrows ==
  /\ verdict # Thrown
  /\ (receipt.extraction = "thrown" /\ verdict # NoVerification)
     => verdict = [ isValid |-> FALSE, confidence |-> 0,
                    checks |-> [amountMatch |-> FALSE, referenceMatch |-> FALSE,
                                recipientMatch |-> FALSE, hasTransactionId |-> FALSE],
                    issues |-> <<"Failed to process receipt image">> ]

C15_Witness ==
  /\ receipt.extraction = "thrown"
  /\ verdict.confidence = 0
  /\ ~verdict.isValid
  /\ ~verdict.checks.recipientMatch
  /\ verdict.issues = <<"Failed to process receipt image">>

\* The recipient check of the claim: it fails only when an expected and a
\* found recipient both exist and neither stripped string contains the other.
RecipientPasses(found, expected) ==
  \/ found = << >>
  \/ expected = << >>
  \/ Includes(Strip(found), Strip(expected))
  \/ Includes(Strip(expected), Strip(found))

\* The confidence of the claim, with the amounts compared in exact cents.
StatedConfidence(r) ==
    (IF /\ r.data.amount # NoAmount
        /\ r.data.amount - r.expectedAmount \in (0 - 1)..1
     THEN 40 ELSE 0)
  + (IF r.data.reference = r.expectedReference THEN 40 ELSE 0)
  + (IF RecipientPasses(r.data.recipient, r.expectedRecipient) THEN 10 ELSE 0)
  + (IF r.data.transactionId # "" THEN 10 ELSE 0)

\* C16: for every parsed record the confidence returned is 40 for an amount
\* within one cent, plus 40 for an equal reference, plus 10 for the
\* recipient check, plus 10 for a transaction id; it lies in 0..100 and
\* isValid holds exactly from 40 up.
C16_ConfidenceIsWeightedSum ==
  (receipt.extraction = "text" /\ verdict # NoVerification)
  => /\ verdict.confidence = StatedConfidence(receipt)
     /\ verdict.confidence \in 0..100
     /\ verdict.isValid <=> verdict.confidence >= 40

\* The modified paths of the document whose save() reaches the store in
\* this step.
WrittenPaths ==
  IF pipeline.pc \in {"save", "catch_save"} /\ pipeline'.pc # pipeline.pc
  THEN pipeline.d.mod
  ELSE IF \E k \in Timers : TimerWrites(k)
  THEN timers[CHOOSE k \in Timers : TimerWrites(k)].d.mod
  ELSE IF \E r \in Requests : reqs[r].pc = "save" /\ reqs'[r].pc # "save"
  THEN reqs[CHOOSE r \in Requests : reqs[r].pc = "save" /\ reqs'[r].pc # "save"].d.mod
  ELSE {}

\* C17: every write that changes the stored paymentStatus of an order into
\* completed or failed carries verifiedAt in the same save().
C17_TerminalWriteStampsVerifiedAt ==
  [][(/\ db # NoOrder
      /\ db'.paymentStatus # db.paymentStatus
      /\ db'.paymentStatus \in {"completed", "failed"})
     => "verifiedAt" \in WrittenPaths]_vars

IsPrefix(s, t) == Len(s) <= Len(t) /\ SubSeq(t, 1, Len(s)) = s

\* C18: verificationNotes only grows: after any step on an order the notes
\* stored before the step are a prefix of the notes stored after it.
C18_NotesAppendOnly ==
  [][db # NoOrder => IsPrefix(db.verificationNotes, db'.verificationNotes)]_vars

\* Tickets bought by the purchases that were answered with success.
RECURSIVE Bought(_)
Bought(S) ==
  IF S = {} THEN 0
  ELSE LET s == CHOOSE x \in S : TRUE
       IN (IF shoppers[s].route = "purchase" /\ shoppers[s].code = 200
           THEN shoppers[s].body.tickets.quantity ELSE 0) + Bought(S \ {s})

\* C19: with no update in flight, what is left of the ticket type is what
\* it started with less every quantity reserved (no rejection restores
\* anything here).
C19_NoInventoryUpdateLost ==
  (\A s \in Shoppers : shoppers[s].pc # "save")
  => ticketType.quantity - ticketType.sold = Stock - Bought(Shoppers)

\* A body an order may be created from, given the event's ticket type.
Acceptable(body) ==
  /\ body.complete
  /\ KnownTicketType(body.tickets.ticketTypeId)
  /\ body.tickets.quantity <= ticketType.quantity

\* C20: an order is stored, and its pipeline queued, only for a body that
\* names a ticket type of the event and asks for no more than is available;
\* a create-order request with any other body is answered 400 and changes
\* neither the order, the pipeline nor the ticket type.
C20_InvalidCreationRejected ==
  /\ [][(db = NoOrder /\ db' # NoOrder)
        => Acceptable([complete |-> TRUE, tickets |-> db'.tickets])]_state
  /\ [][(pipeline.pc = "none" /\ pipeline'.pc # "none")
        => Acceptable([complete |-> TRUE, tickets |-> db'.tickets])]_state
  /\ [][\A s \in Shoppers :
          (/\ shoppers[s].pc = "idle"
           /\ shoppers'[s].route = "create_order"
           /\ ~Acceptable(shoppers'[s].body))
          => /\ shoppers'[s].code = 400
             /\ UNCHANGED <<db, pipeline, ticketType>>]_state

\* The initial paymentStatus that goes with each payment method: the
\* screenshot method, the WhatsApp relay, and immediate capture.
InitialStatus(method) ==
  IF method = "mcb-juice" THEN "pending_verification"
  ELSE IF method = "mcb-juice-whatsapp" THEN "pending_whatsapp_verification"
  ELSE "completed"

\* C21: an order is created in the paymentStatus that goes with its payment
\* method (mcb-juice: pending_verification, mcb-juice-whatsapp:
\* pending_whatsapp_verification, card: completed) and in no other.
C21_InitialStatusByMethod ==
  [][(db = NoOrder /\ db' # NoOrder)
     => /\ db'.paymentMethod \in {"card", "mcb-juice", "mcb-juice-whatsapp"}
        /\ db'.paymentStatus = InitialStatus(db'.paymentMethod)]_state

\* A run of generateAndSendTickets takes place in this step.
Fulfils == calls' # calls

\* C22: in a run of generateAndSendTickets an e-mail goes out only when the
\* tickets were generated in that run; a run whose generation succeeded
\* and whose delivery failed hands its error to the caller: the pipeline
\* enters its catch block and the admin approval answers 500 without saving.
C22_DeliveryOnlyAfterGeneration ==
  [][Fulfils
     => /\ delivered' - delivered \in {0, 1}
        /\ generated' - generated \in {0, 1}
        /\ delivered' > delivered => generated' > generated
        /\ (/\ generated' > generated
            /\ delivered' = delivered
            /\ pipeline.pc = "fulfil"
            /\ pipeline'.pc # "fulfil")
           => pipeline'.pc = "catch_save"
        /\ \A r \in Requests :
             (/\ generated' > generated
              /\ delivered' = delivered
              /\ reqs[r].route = "admin_approve"
              /\ reqs[r].pc = "fulfil"
              /\ reqs'[r].pc # "fulfil")
             => /\ reqs'[r].pc = "done"
                /\ reqs'[r].code = 500]_vars

C22_Witness ==
  /\ pipeline.pc = "catch_save"
  /\ calls.pipeline = 1
  /\ generated = 1
  /\ delivered = 0

\* C23: an order stored in pending_auto_approval, with no verification
\* request made on it, is in the end stored as completed with verifiedAt
\* set and generateAndSendTickets invoked by the callback.
C23_GraceTimerCompletes ==
  (db.paymentStatus = "pending_auto_approval")
  ~> (/\ db.paymentStatus = "completed"
      /\ db.verifiedAt # NoDate
      /\ calls.timer >= 1)

C23_Witness ==
  /\ pipeline.verification.confidence = GraceThreshold
  /\ timers[1].pc = "done"
  /\ now >= timers[1].due
  /\ db.paymentStatus = "completed"
  /\ db.verifiedAt = now
  /\ calls = [pipeline |-> 0, timer |-> 1, request |-> 0]

\* The lines of the text read so far whose pattern (given as the captured
\* string) matched.
Matching(Pattern(_)) ==
  {i \in 1..(parser.at - 1) : Pattern(parser.lines[i]) # ""}

\* The earliest of a set of line numbers.
Earliest(S) == CHOOSE i \in S : \A j \in S : i <= j

\* C24: the reference parseReceiptData returns is the code of the earliest
\* line that carries a keyword followed by a TCK code, whatever later lines
\* carry; it is null when no line does.
C24_FirstReferenceWins ==
  parser.pc = "returned"
  => parser.data.reference =
       IF Matching(ReferencePattern) = {} THEN ""
       ELSE ReferencePattern(parser.lines[Earliest(Matching(ReferencePattern))])

\* C25: the amount parseReceiptData returns is the amount of the earliest
\* line that matches the currency pattern, 0 included, whatever later lines
\* carry; the call returns, with null in every field that no line matched.
C25_FirstAmountWins ==
  parser.pc = "returned"
  => /\ parser.data.amount =
          IF Matching(AmountPattern) = {} THEN NoAmount
          ELSE ParseFloat[AmountPattern(parser.lines[Earliest(Matching(AmountPattern))])]
     /\ Matching(ReferencePattern) = {} => parser.data.reference = ""
     /\ Matching(TransactionPattern) = {} => parser.data.transactionId = ""
     /\ Matching(RecipientPattern) = {} => parser.data.recipient = ""

\* C26: whatever confidence and validity the scorer returns, no run of
\* processAutomaticVerification assigns or stores pending_quick_review or a
\* reviewPriority of high.
C26_QuickReviewUnreachable ==
  /\ db.paymentStatus # "pending_quick_review"
  /\ db.reviewPriority # "high"
  /\ pipeline.d.doc.paymentStatus # "pending_quick_review"
  /\ pipeline.d.doc.reviewPriority # "high"
  /\ pipeline.pc \notin {"none", "scheduled"} => Tier(pipeline.verification) # "quick_review"

\* A confidence that passes the quick-review test, not valid, was taken by
\* the grace branch.
C26_Witness ==
  /\ pipeline.pc = "done"
  /\ pipeline.verification.confidence >= QuickReviewThreshold
  /\ ~pipeline.verification.isValid
  /\ db.paymentStatus = "pending_auto_approval"
  /\ db.reviewPriority = "standard"

\* Tickets reserved by the create-order requests that were accepted.
RECURSIVE Reserved(_)
Reserved(S) ==
  IF S = {} THEN 0
  ELSE LET s == CHOOSE x \in S : TRUE
       IN (IF shoppers[s].route = "create_order" /\ shoppers[s].code = 201
           THEN shoppers[s].body.tickets.quantity ELSE 0) + Reserved(S \ {s})

C28_ErrorAnswerChangesNothing ==
  [][\A r \in Requests :
        (/\ reqs'[r].route \in {"admin_approve", "admin_reject"}
         /\ reqs[r].pc # "done"
         /\ reqs'[r].pc = "done"
         /\ reqs'[r].code >= 400)
        => /\ db'.paymentStatus = db.paymentStatus
           /\ db'.verifiedBy = db.verifiedBy
           /\ db'.verifiedAt = db.verifiedAt
           /\ db'.verificationNotes = db.verificationNotes
           /\ delivered' = delivered]_vars

\* The votes of a type the song holds.
VotesOf(voteType) ==
  {i \in DOMAIN playlist.votes : playlist.votes[i].voteType = voteType}

\* C29: the song holds at most one vote per user and its voteScore is the
\* number of its up votes less the number of its down votes; a request
\* that repeats the user's vote is answered 400 and changes nothing.
C29_OneVotePerUserScoreConsistent ==
  /\ [](/\ \A userId \in Voters :
             Cardinality({i \in DOMAIN playlist.votes :
                            playlist.votes[i].userId = userId}) <= 1
        /\ playlist.voteScore = Cardinality(VotesOf("up")) - Cardinality(VotesOf("down")))
  /\ [][(/\ vote'.count # vote.count
         /\ \E i \in DOMAIN playlist.votes :
              /\ playlist.votes[i].userId = vote'.userId
              /\ playlist.votes[i].voteType = vote'.voteType)
        => /\ vote'.code >= 400
           /\ playlist' = playlist]_playlistVars

\* A user's up vote turned into a down vote beside another user's up vote,
\* and the down vote then repeated.
C29_Witness ==
  /\ vote.code = 400
  /\ vote.songId = "song"
  /\ vote.voteType = "down"
  /\ playlist.votes = <<[userId |-> vote.userId, voteType |-> "down"],
                        [userId |-> (vote.userId % MaxVoters) + 1, voteType |-> "up"]>>
  /\ playlist.voteScore = 0
  /\ vote.count = 4

\* No purchase stands between its read of the event and its save().
PurchasesSettled == \A s \in Shoppers : shoppers[s].pc # "save"

\* C30: the ticket type's sold counter never exceeds its quantity, and once
\* the purchases under way have been answered it is the sum of the
\* quantities of the accepted purchases.
C30_SoldWithinQuantityAndExact ==
  /\ ticketType.sold <= ticketType.quantity
  /\ PurchasesSettled => ticketType.sold = Bought(Shoppers)

====
